---- MODULE Spec2Model ----
(***************************************************************************)
(* Model of src/lambda.py: a GitLab merge-request webhook receiver that    *)
(* authenticates the request against a per-project secret and triggers one *)
(* CodePipeline execution per merge-request label found in the mapping     *)
(* configured in the LABEL_PIPELINE_MAPPING environment variable.          *)
(*                                                                         *)
(* Conventions.  A Python str whose case matters (header names, label      *)
(* titles, mapping keys) is a sequence of one-character strings, so that   *)
(* str.lower() is computed character by character.  Other strs are TLA+    *)
(* strings.  A dict is a function whose domain is its key set.  A JSON     *)
(* text is a record: [kind |-> "garbage"] is a text json.loads rejects,    *)
(* [kind |-> "json", value |-> v] is the serialisation of v.               *)
(***************************************************************************)
EXTENDS Integers, Sequences, FiniteSets, TLC

\* ------------------------------------------------------------------ bounds
MaxLabels == 2
MaxDeliveries == 2

\* ------------------------------------------------------- Python primitives
None == "<None>"
EmptyDict == <<>>

UpperAlphabet ==
  <<"A","B","C","D","E","F","G","H","I","J","K","L","M",
    "N","O","P","Q","R","S","T","U","V","W","X","Y","Z">>
LowerAlphabet ==
  <<"a","b","c","d","e","f","g","h","i","j","k","l","m",
    "n","o","p","q","r","s","t","u","v","w","x","y","z">>

\* the lowercase letter of each uppercase letter
LowerTable ==
  [c \in {UpperAlphabet[i] : i \in DOMAIN UpperAlphabet} |->
     LowerAlphabet[CHOOSE i \in DOMAIN UpperAlphabet : UpperAlphabet[i] = c]]

\* str.lower() on one character: other characters are left as they are
LowerChar(c) == IF c \in DOMAIN LowerTable THEN LowerTable[c] ELSE c

\* str.lower()
lower(s) == [i \in DOMAIN s |-> LowerChar(s[i])]

\* dict.get(key, default)
Get(d, key, default) == IF key \in DOMAIN d THEN d[key] ELSE default

\* truthiness of a str-or-None value: None and "" are falsy
Truthy(v) == v # None /\ v # ""

\* json.loads: raises JSONDecodeError on a text that is not JSON
json_loads(text) ==
  IF text.kind = "json" THEN [ok |-> TRUE, value |-> text.value]
  ELSE [ok |-> FALSE, value |-> EmptyDict]

\* json.dumps: the text that serialises v
json_dumps(v) == [kind |-> "json", value |-> v]

\* ------------------------------------------------------------ input values
HdrTitle == <<"X","-","G","i","t","l","a","b","-","T","o","k","e","n">>
HdrLower == <<"x","-","g","i","t","l","a","b","-","t","o","k","e","n">>
HdrUpper == <<"X","-","G","I","T","L","A","B","-","T","O","K","E","N">>
HdrHost == <<"H","o","s","t">>

\* the headers dict, as its items in insertion order (names are distinct)
HeaderMaps ==
  { << <<HdrTitle, "secret123">> >>,
    << <<HdrUpper, "wrong">> >>,
    << <<HdrLower, "">> >>,
    << <<HdrHost, "secret123">>, <<HdrLower, "secret123">> >>,
    << <<HdrTitle, "secret123">>, <<HdrLower, "wrong">> >>,
    << <<HdrLower, "wrong">>, <<HdrUpper, "secret123">> >> }

LblQ1 == <<"Q","1">>
Lblq1 == <<"q","1">>
Lblq2 == <<"q","2">>
Titles == {LblQ1, Lblq2}

RECURSIVE SeqsUpTo(_, _)
SeqsUpTo(S, n) ==
  IF n = 0 THEN {<<>>}
  ELSE LET shorter == SeqsUpTo(S, n - 1)
       IN  shorter \cup {Append(s, x) : s \in {t \in shorter : Len(t) = n - 1}, x \in S}

LabelLists == {[i \in DOMAIN s |-> [title |-> s[i]]] : s \in SeqsUpTo(Titles, MaxLabels)}

\* an optional key of a dict: <<>> when the key is absent, <<v>> when present
Opt(S) == {<<>>} \cup {<<v>> : v \in S}

MkDict(full) == [k \in {f \in DOMAIN full : Len(full[f]) = 1} |-> full[k][1]]

Payloads ==
  { MkDict([object_kind |-> k, project |-> p, object_attributes |-> a, labels |-> l]) :
      k \in Opt({"merge_request", "note"}),
      p \in Opt({[path_with_namespace |-> n] : n \in {"g/p", "g/q"}}),
      a \in Opt({[source_branch |-> "feature-x"]}),
      l \in Opt(LabelLists) }

Bodies == {[kind |-> "garbage"]} \cup {json_dumps(p) : p \in Payloads}

Events ==
  { MkDict([body |-> b, headers |-> h]) : b \in Opt(Bodies), h \in Opt(HeaderMaps) }

\* ------------------------------------------------ collaborators' contents
SecretName(project) == <<"gitlab", project, "token">>

\* Secrets Manager: SecretId -> SecretString; an id outside the domain is
\* ResourceNotFoundException.  The service answers every request: an outage of
\* it is outside the model.
SecretStores ==
  { EmptyDict,
    (SecretName("g/p") :> "secret123"),
    (SecretName("g/p") :> "") @@ (SecretName("g/q") :> "secret123") }

\* a parsed LABEL_PIPELINE_MAPPING value: a JSON object (dict) or a JSON array
MappingDict(m) == [type |-> "dict", map |-> m, items |-> <<>>]
MappingList(xs) == [type |-> "list", map |-> EmptyDict, items |-> xs]

\* os.environ, restricted to the one variable the handler reads
Environs ==
  { EmptyDict,
    [LABEL_PIPELINE_MAPPING |-> [kind |-> "garbage"]],
    [LABEL_PIPELINE_MAPPING |-> json_dumps(MappingList(<<Lblq1>>))],
    [LABEL_PIPELINE_MAPPING |->
       json_dumps(MappingDict((Lblq1 :> "PipelineQ1") @@ (Lblq2 :> "PipelineQ1")))],
    [LABEL_PIPELINE_MAPPING |->
       json_dumps(MappingDict((Lblq1 :> "PipelineQ1") @@ (Lblq2 :> "PipelineQ2")))],
    [LABEL_PIPELINE_MAPPING |->
       json_dumps(MappingDict((LblQ1 :> "PipelineQ1") @@ (Lblq1 :> "PipelineQ2")
                              @@ (Lblq2 :> "")))],
    [LABEL_PIPELINE_MAPPING |-> json_dumps(MappingDict((LblQ1 :> "PipelineQ1")))] }

\* ------------------------------------------------------------------- state
VARIABLES
  secrets,                 \* Secrets Manager contents
  environ,                 \* os.environ
  executions,              \* CodePipeline: every execution started, oldest first
  event,                   \* the event of the invocation
  pc,                      \* position of the invocation in lambda_handler
  payload,                 \* lambda_handler local
  label_titles,            \* lambda_handler local
  source_branch,           \* lambda_handler local
  label_pipeline_mapping,  \* lambda_handler local
  idx,                     \* position of the for loop in label_titles
  triggered_pipelines,     \* lambda_handler local
  result,                  \* what the invocation gave its caller
  lookups,                 \* SecretIds asked of Secrets Manager by this invocation
  env_reads,               \* number of reads of os.environ by this invocation
  attempts,                \* start_pipeline_execution calls made by this invocation
  exec_base,               \* Len(executions) when this invocation began
  history                  \* summaries of the earlier invocations of the event

vars ==
  <<secrets, environ, executions, event, pc, payload, label_titles, source_branch,
    label_pipeline_mapping, idx, triggered_pipelines, result, lookups, env_reads,
    attempts, exec_base, history>>

NoResult == [kind |-> "none"]
Return(status, body) == [kind |-> "return", statusCode |-> status, body |-> json_dumps(body)]
ReturnJson(status, body) ==
  [kind |-> "return", statusCode |-> status, body |-> json_dumps(body),
   headers |-> [ContentType |-> "application/json"]]
Raise(exc) == [kind |-> "raise", exc |-> exc]

NoMapping == [type |-> "unset", map |-> EmptyDict, items |-> <<>>]

\* the executions this invocation has started
Calls == SubSeq(executions, exec_base + 1, Len(executions))

\* ------------------------------------------------------- get_project_token
\* secrets_client.get_secret_value(SecretId=...)["SecretString"], or None on
\* ResourceNotFoundException
get_project_token(project) ==
  LET secret_name == SecretName(project)
  IN  IF secret_name \in DOMAIN secrets THEN secrets[secret_name] ELSE None

\* ------------------------------------------------- verify_gitlab_signature
\* {k.lower(): v for k, v in headers.items()}: a later item overwrites an
\* earlier one whose lowercased name is the same
headers_lower(headers) ==
  LET names == {lower(headers[i][1]) : i \in DOMAIN headers}
      last(n) == CHOOSE i \in DOMAIN headers :
                   /\ lower(headers[i][1]) = n
                   /\ \A j \in DOMAIN headers : lower(headers[j][1]) = n => j <= i
  IN  [n \in names |-> headers[last(n)][2]]

\* payload.get("project", {}).get("path_with_namespace")
project_of(p) == Get(Get(p, "project", EmptyDict), "path_with_namespace", None)

\* the token verify_gitlab_signature reads from the headers
token_of(headers) == Get(headers_lower(headers), HdrLower, "")

\* verify_gitlab_signature without the comparison of line 36
verify_gitlab_signature_nocompare(p, headers) ==
  LET project == project_of(p)
      expected_token == get_project_token(project)
  IN  IF ~Truthy(project)
      THEN [ok |-> FALSE, msg |-> <<"No project info in payload">>, asked |-> <<>>]
      ELSE IF ~Truthy(expected_token)
      THEN [ok |-> FALSE, msg |-> <<"No token registered for project ", project>>,
            asked |-> <<SecretName(project)>>]
      ELSE [ok |-> TRUE, msg |-> <<>>, asked |-> <<SecretName(project)>>]

\* verify_gitlab_signature with line 33 as "if expected_token is None"
verify_gitlab_signature_isnone(p, headers) ==
  LET token == token_of(headers)
      project == project_of(p)
      expected_token == get_project_token(project)
  IN  IF ~Truthy(project)
      THEN [ok |-> FALSE, msg |-> <<"No project info in payload">>, asked |-> <<>>]
      ELSE IF expected_token = None
      THEN [ok |-> FALSE, msg |-> <<"No token registered for project ", project>>,
            asked |-> <<SecretName(project)>>]
      ELSE IF token # expected_token
      THEN [ok |-> FALSE, msg |-> <<"Invalid secret token">>,
            asked |-> <<SecretName(project)>>]
      ELSE [ok |-> TRUE, msg |-> <<>>, asked |-> <<SecretName(project)>>]

\* [ok, msg, asked]: the (is_valid, error_msg) pair and the SecretIds asked
verify_gitlab_signature(p, headers) ==
  LET token == token_of(headers)
      project == project_of(p)
      expected_token == get_project_token(project)
  IN  IF ~Truthy(project)
      THEN [ok |-> FALSE, msg |-> <<"No project info in payload">>, asked |-> <<>>]
      ELSE IF ~Truthy(expected_token)
      THEN [ok |-> FALSE, msg |-> <<"No token registered for project ", project>>,
            asked |-> <<SecretName(project)>>]
      ELSE IF token # expected_token
      THEN [ok |-> FALSE, msg |-> <<"Invalid secret token">>,
            asked |-> <<SecretName(project)>>]
      ELSE [ok |-> TRUE, msg |-> <<>>, asked |-> <<SecretName(project)>>]

\* -------------------------------------------------------- trigger_pipeline
\* trigger_pipeline passing the pipeline name where the branch belongs
trigger_pipeline_swapped(pipeline_name, branch_name) ==
  [name |-> pipeline_name,
   variables |-> <<[name |-> "SOURCE_BRANCH", value |-> pipeline_name]>>]

\* the start_pipeline_execution request trigger_pipeline sends
trigger_pipeline(pipeline_name, branch_name) ==
  [name |-> pipeline_name,
   variables |-> <<[name |-> "SOURCE_BRANCH", value |-> branch_name]>>]

\* the execution CodePipeline records for a request; the id is fresh
StartExecution(request) ==
  [name |-> request.name, variables |-> request.variables,
   pipelineExecutionId |-> Len(executions) + 1]

\* ---------------------------------------------------------- lambda_handler
event_body(e) == Get(e, "body", json_dumps(EmptyDict))
event_headers(e) == Get(e, "headers", <<>>)

\* [label["title"].lower() for label in labels]
titles_of(p) ==
  LET labels == Get(p, "labels", <<>>)
  IN  [i \in DOMAIN labels |-> lower(labels[i].title)]

\* payload.get("object_attributes", {}).get("source_branch")
branch_of(p) == Get(Get(p, "object_attributes", EmptyDict), "source_branch", None)

\* os.environ.get("LABEL_PIPELINE_MAPPING", "{}")
mapping_text(env) == Get(env, "LABEL_PIPELINE_MAPPING", json_dumps(MappingDict(EmptyDict)))

\* the lookup of line 94 falling back to a default pipeline
pipeline_for_default(mapping, label) == Get(mapping.map, label, "PipelineQ1")

\* label_pipeline_mapping.get(label), for a mapping that is a dict
pipeline_for(mapping, label) == Get(mapping.map, label, None)

\* line 95 passing over a pipeline this invocation has already started
ShouldTrigger_dedup(pipeline_name) ==
  /\ Truthy(pipeline_name)
  /\ \A i \in DOMAIN triggered_pipelines : triggered_pipelines[i].pipeline # pipeline_name

\* line 95 passing over a pipeline an earlier invocation has already started
ShouldTrigger_once(pipeline_name) ==
  /\ Truthy(pipeline_name)
  /\ \A i \in 1..exec_base : executions[i].name # pipeline_name

\* "if pipeline_name:"
ShouldTrigger(pipeline_name) == Truthy(pipeline_name)

Locals ==
  <<payload, label_titles, source_branch, label_pipeline_mapping, idx, triggered_pipelines>>
Effects == <<lookups, env_reads, attempts, exec_base>>
World == <<secrets, environ>>

Begin(e) ==
  /\ event' = e
  /\ pc' = "parse"
  /\ payload' = EmptyDict
  /\ label_titles' = <<>>
  /\ source_branch' = None
  /\ label_pipeline_mapping' = NoMapping
  /\ idx' = 1
  /\ triggered_pipelines' = <<>>
  /\ result' = NoResult
  /\ lookups' = <<>>
  /\ env_reads' = 0
  /\ attempts' = 0
  /\ exec_base' = Len(executions)

\* the hosting environment invokes lambda_handler(event, context)
Receive(e) ==
  /\ pc = "idle"
  /\ Begin(e)
  /\ UNCHANGED <<World, executions, history>>

Finish(r) ==
  /\ result' = r
  /\ pc' = "done"

\* lines 56-63: json.loads(body)
Parse ==
  /\ pc = "parse"
  /\ LET parsed == json_loads(event_body(event))
     IN  IF parsed.ok
         THEN /\ payload' = parsed.value
              /\ pc' = "verify"
              /\ UNCHANGED result
         ELSE /\ Finish(Return(400, [error |-> <<"Invalid JSON payload">>]))
              /\ UNCHANGED payload
  /\ UNCHANGED <<World, executions, event, label_titles, source_branch,
                 label_pipeline_mapping, idx, triggered_pipelines, Effects, history>>

\* lines 65-68: verify_gitlab_signature(payload, headers)
Verify ==
  /\ pc = "verify"
  /\ LET v == verify_gitlab_signature(payload, event_headers(event))
     IN  /\ lookups' = lookups \o v.asked
         /\ IF v.ok
            THEN pc' = "filter" /\ UNCHANGED result
            ELSE Finish(Return(403, [error |-> v.msg]))
  /\ UNCHANGED <<World, executions, event, Locals, env_reads, attempts, exec_base, history>>

\* lines 70-72 without the test of object_kind
Filter_nokind ==
  /\ pc = "filter"
  /\ pc' = "load"
  /\ UNCHANGED <<World, executions, event, Locals, result, Effects, history>>

\* lines 70-72: only merge request events
Filter ==
  /\ pc = "filter"
  /\ IF Get(payload, "object_kind", None) # "merge_request"
     THEN Finish(Return(200, [message |-> "Not a merge request event"]))
     ELSE pc' = "load" /\ UNCHANGED result
  /\ UNCHANGED <<World, executions, event, Locals, Effects, history>>

\* lines 74-90: labels, source branch, the mapping from the environment
LoadMapping ==
  /\ pc = "load"
  /\ label_titles' = titles_of(payload)
  /\ source_branch' = branch_of(payload)
  /\ env_reads' = env_reads + 1
  /\ LET parsed == json_loads(mapping_text(environ))
     IN  IF parsed.ok
         THEN /\ label_pipeline_mapping' = parsed.value
              /\ pc' = "dispatch"
              /\ UNCHANGED result
         ELSE /\ Finish(Return(500, [error |-> <<"Invalid LABEL_PIPELINE_MAPPING env var">>]))
              /\ UNCHANGED label_pipeline_mapping
  /\ triggered_pipelines' = <<>>
  /\ idx' = 1
  /\ UNCHANGED <<World, executions, event, payload, lookups, attempts, exec_base, history>>

InLoop == pc = "dispatch" /\ idx <= Len(label_titles)

\* line 94 on a mapping that is not a dict: the .get attribute lookup fails
LoopGetFails ==
  /\ InLoop
  /\ label_pipeline_mapping.type # "dict"
  /\ Finish(Raise("AttributeError"))
  /\ UNCHANGED <<World, executions, event, Locals, Effects, history>>

\* lines 93-95: a label with no (truthy) pipeline is passed over
LoopSkip ==
  /\ InLoop
  /\ label_pipeline_mapping.type = "dict"
  /\ ~ShouldTrigger(pipeline_for(label_pipeline_mapping, label_titles[idx]))
  /\ idx' = idx + 1
  /\ UNCHANGED <<World, executions, event, pc, payload, label_titles, source_branch,
                 label_pipeline_mapping, triggered_pipelines, result, Effects, history>>

\* lines 93-101: the pipeline of the label is started and recorded
LoopTrigger ==
  /\ InLoop
  /\ label_pipeline_mapping.type = "dict"
  /\ LET label == label_titles[idx]
         pipeline_name == pipeline_for(label_pipeline_mapping, label)
         response == StartExecution(trigger_pipeline(pipeline_name, source_branch))
     IN  /\ ShouldTrigger(pipeline_name)
         /\ executions' = Append(executions, response)
         /\ triggered_pipelines' =
              Append(triggered_pipelines,
                     [label |-> label, pipeline |-> pipeline_name,
                      execution_id |-> response.pipelineExecutionId])
  /\ idx' = idx + 1
  /\ attempts' = attempts + 1
  /\ UNCHANGED <<World, event, pc, payload, label_titles, source_branch,
                 label_pipeline_mapping, result, lookups, env_reads, exec_base, history>>

\* line 96 inside a try/except that logs the failure and goes on to the next label
LoopTriggerFails_swallowed ==
  /\ InLoop
  /\ label_pipeline_mapping.type = "dict"
  /\ ShouldTrigger(pipeline_for(label_pipeline_mapping, label_titles[idx]))
  /\ idx' = idx + 1
  /\ attempts' = attempts + 1
  /\ UNCHANGED <<World, executions, event, pc, payload, label_titles, source_branch,
                 label_pipeline_mapping, triggered_pipelines, result, lookups, env_reads,
                 exec_base, history>>

\* line 96 when start_pipeline_execution raises: nothing catches it
LoopTriggerFails ==
  /\ InLoop
  /\ label_pipeline_mapping.type = "dict"
  /\ ShouldTrigger(pipeline_for(label_pipeline_mapping, label_titles[idx]))
  /\ Finish(Raise("ClientError"))
  /\ attempts' = attempts + 1
  /\ UNCHANGED <<World, executions, event, Locals, lookups, env_reads, exec_base, history>>

\* lines 103-114: the response after the loop
Respond ==
  /\ pc = "dispatch"
  /\ idx > Len(label_titles)
  /\ IF triggered_pipelines = <<>>
     THEN Finish(ReturnJson(200, [message |-> "No matching label for pipeline, skipped"]))
     ELSE Finish(ReturnJson(200, [triggered_pipelines |-> triggered_pipelines]))
  /\ UNCHANGED <<World, executions, event, Locals, Effects, history>>

\* what an ended invocation leaves behind for comparison with a later one
Summary ==
  [result |-> result,
   calls |-> [i \in DOMAIN Calls |-> [name |-> Calls[i].name, variables |-> Calls[i].variables]],
   ids |-> {Calls[i].pipelineExecutionId : i \in DOMAIN Calls}]

\* GitLab delivers the same webhook again: lambda_handler runs on the same event
Redeliver ==
  /\ pc = "done"
  /\ Len(history) + 1 < MaxDeliveries
  /\ history' = Append(history, Summary)
  /\ Begin(event)
  /\ UNCHANGED <<World, executions>>

Init ==
  /\ secrets \in SecretStores
  /\ environ \in Environs
  /\ executions = <<>>
  /\ event = EmptyDict
  /\ pc = "idle"
  /\ payload = EmptyDict
  /\ label_titles = <<>>
  /\ source_branch = None
  /\ label_pipeline_mapping = NoMapping
  /\ idx = 1
  /\ triggered_pipelines = <<>>
  /\ result = NoResult
  /\ lookups = <<>>
  /\ env_reads = 0
  /\ attempts = 0
  /\ exec_base = 0
  /\ history = <<>>

Next ==
  \/ \E e \in Events : Receive(e)
  \/ Parse
  \/ Verify
  \/ Filter
  \/ LoadMapping
  \/ LoopGetFails
  \/ LoopSkip
  \/ LoopTrigger
  \/ LoopTriggerFails
  \/ Respond
  \/ Redeliver

Spec == Init /\ [][Next]_vars

\* ================================================================ properties
\* What the request, the secret store and the configuration are, read off the
\* inputs alone.

BodyIsJson == event_body(event).kind = "json"
ReqPayload == event_body(event).value

ReqProject ==
  IF BodyIsJson /\ "project" \in DOMAIN ReqPayload
  THEN ReqPayload.project.path_with_namespace
  ELSE None

\* the secret registered for the payload's project, None when there is none
RegisteredSecret ==
  IF <<"gitlab", ReqProject, "token">> \in DOMAIN secrets
  THEN secrets[<<"gitlab", ReqProject, "token">>]
  ELSE None

\* positions of the headers whose name is x-gitlab-token in some casing
TokenHeaderPositions ==
  {i \in DOMAIN event_headers(event) : lower(event_headers(event)[i][1]) = HdrLower}

TokenHeaderValues == {event_headers(event)[i][2] : i \in TokenHeaderPositions}

\* the token of the request: the value of the last such header, "" without one
PresentedToken ==
  IF TokenHeaderPositions = {} THEN ""
  ELSE event_headers(event)[CHOOSE i \in TokenHeaderPositions :
                              \A j \in TokenHeaderPositions : j <= i][2]

AuthorizedRequest ==
  /\ BodyIsJson
  /\ ReqProject \notin {None, ""}
  /\ RegisteredSecret \notin {None, ""}
  /\ PresentedToken = RegisteredSecret

IsMergeRequest ==
  /\ BodyIsJson
  /\ "object_kind" \in DOMAIN ReqPayload
  /\ ReqPayload.object_kind = "merge_request"

ReqTitles ==
  IF BodyIsJson /\ "labels" \in DOMAIN ReqPayload
  THEN [i \in DOMAIN ReqPayload.labels |-> lower(ReqPayload.labels[i].title)]
  ELSE <<>>

ReqBranch ==
  IF BodyIsJson /\ "object_attributes" \in DOMAIN ReqPayload
  THEN ReqPayload.object_attributes.source_branch
  ELSE None

ConfiguredText == mapping_text(environ)

\* the configuration is a JSON object
MappingWellFormed ==
  /\ ConfiguredText.kind = "json"
  /\ ConfiguredText.value.type = "dict"

ConfiguredMap == ConfiguredText.value.map

\* the lowercase title t maps to a pipeline
Matches(t) ==
  /\ MappingWellFormed
  /\ t \in DOMAIN ConfiguredMap
  /\ ConfiguredMap[t] \notin {None, ""}

MatchingLabels == SelectSeq(ReqTitles, Matches)

Dispatching == AuthorizedRequest /\ IsMergeRequest /\ MappingWellFormed

Ended == pc = "done"
Status(n) == result.kind = "return" /\ result.statusCode = n
Message(m) ==
  /\ result.kind = "return"
  /\ "message" \in DOMAIN result.body.value
  /\ result.body.value.message = m
Error(m) ==
  /\ result.kind = "return"
  /\ "error" \in DOMAIN result.body.value
  /\ result.body.value.error = m
NoTrigger == attempts = 0 /\ Calls = <<>>

\* C1: a request none of whose x-gitlab-token headers (in any casing of the
\* name) carries the secret registered for the payload's project is answered
\* 403, and its invocation makes no pipeline-trigger call.
C1_TokenMismatchForbidden ==
  (BodyIsJson /\ RegisteredSecret \notin TokenHeaderValues)
    => /\ NoTrigger
       /\ Ended => Status(403)

C1_Witness ==
  /\ Ended
  /\ Status(403)
  /\ Error(<<"Invalid secret token">>)
  /\ \E i \in TokenHeaderPositions : event_headers(event)[i][1] # HdrLower

\* C2 as stated: every payload whose object_kind is not "merge_request" is
\* answered 200 "Not a merge request event" and triggers nothing.
C2_AsStated ==
  (BodyIsJson /\ ~IsMergeRequest)
    => /\ NoTrigger
       /\ Ended => (Status(200) /\ Message("Not a merge request event"))

\* C2 amended: a request that passes authentication and whose object_kind is
\* not "merge_request" (another value, or absent) is answered 200 "Not a merge
\* request event"; no request whose object_kind is not "merge_request",
\* authenticated or not, triggers a pipeline or reads the configuration,
\* whatever its labels.
C2_NonMergeRequestAcknowledged ==
  (BodyIsJson /\ ~IsMergeRequest)
    => /\ NoTrigger
       /\ env_reads = 0
       /\ (Ended /\ AuthorizedRequest)
            => (Status(200) /\ Message("Not a merge request event"))

C2_Witness ==
  /\ Ended
  /\ AuthorizedRequest
  /\ "object_kind" \notin DOMAIN ReqPayload
  /\ MatchingLabels # <<>>
  /\ Message("Not a merge request event")

\* C3: an authorized merge-request event that is answered leaves, in label
\* order, one call per label whose lowercase title maps to a pipeline, made with
\* that pipeline and SOURCE_BRANCH = object_attributes.source_branch, and its
\* triggered_pipelines list is exactly the records {label, pipeline,
\* execution_id returned by that call} of those labels.
C3_TriggeredListExact ==
  (Ended /\ Dispatching /\ result.kind = "return")
    => LET M == MatchingLabels
           expected ==
             [i \in 1..Len(M) |->
                [label |-> M[i], pipeline |-> ConfiguredMap[M[i]],
                 execution_id |-> Calls[i].pipelineExecutionId]]
       IN  /\ Len(Calls) = Len(M)
           /\ \A i \in 1..Len(M) :
                /\ Calls[i].name = ConfiguredMap[M[i]]
                /\ Calls[i].variables = <<[name |-> "SOURCE_BRANCH", value |-> ReqBranch]>>
           /\ Status(200)
           /\ M # <<>> => /\ "triggered_pipelines" \in DOMAIN result.body.value
                          /\ result.body.value.triggered_pipelines = expected
           /\ M = <<>> => "triggered_pipelines" \notin DOMAIN result.body.value

C3_Witness ==
  /\ Ended
  /\ Dispatching
  /\ result.kind = "return"
  /\ "triggered_pipelines" \in DOMAIN result.body.value
  /\ Len(result.body.value.triggered_pipelines) = 2
  /\ result.body.value.triggered_pipelines[1].pipeline
       # result.body.value.triggered_pipelines[2].pipeline
  /\ ReqPayload.labels[2].title = LblQ1
  /\ ReqBranch = "feature-x"

\* C4: when no label of an authorized merge-request event is, compared
\* case-insensitively, a key of the configured mapping, the answer is 200 "No
\* matching label for pipeline, skipped" and no pipeline-trigger call is made.
C4_NoMatchSkipped ==
  (Dispatching /\ \A i \in DOMAIN ReqTitles :
                    ReqTitles[i] \notin {lower(k) : k \in DOMAIN ConfiguredMap})
    => /\ NoTrigger
       /\ Ended => (Status(200) /\ Message("No matching label for pipeline, skipped"))

C4_Witness ==
  /\ Ended
  /\ Dispatching
  /\ ReqTitles # <<>>
  /\ DOMAIN ConfiguredMap # {}
  /\ \A i \in DOMAIN ReqTitles : ReqTitles[i] \notin {lower(k) : k \in DOMAIN ConfiguredMap}
  /\ Message("No matching label for pipeline, skipped")

\* C5 as stated: an invocation whose input is (a) a body that is not JSON, (b)
\* an authorization failure, (c) a malformed label-pipeline mapping or (d) a
\* valid event with no matching label ends with a response of status 400, 403,
\* 500 and 200 respectively, never with an exception.
C5_RecoverableAnswered ==
  Ended =>
    /\ ~BodyIsJson => Status(400)
    /\ (BodyIsJson /\ ~AuthorizedRequest) => Status(403)
    /\ (AuthorizedRequest /\ IsMergeRequest /\ ~MappingWellFormed) => Status(500)
    /\ (Dispatching /\ MatchingLabels = <<>>) => Status(200)

\* C6 as stated: the invocation ends at the first applicable step of parse,
\* authenticate, filter, load mapping, dispatch: 400 before any secret lookup,
\* 403 whatever the kind and the configuration, 200 for another event kind even
\* under a malformed mapping, 500 for a malformed mapping before any trigger
\* call, and no effect of a step after the one that ended it.
C6_FirstApplicableStepEnds ==
  /\ ~BodyIsJson
       => /\ lookups = <<>> /\ env_reads = 0 /\ NoTrigger
          /\ Ended => Status(400)
  /\ (BodyIsJson /\ ~AuthorizedRequest)
       => /\ env_reads = 0 /\ NoTrigger
          /\ Ended => Status(403)
  /\ (AuthorizedRequest /\ ~IsMergeRequest)
       => /\ env_reads = 0 /\ NoTrigger
          /\ Ended => Message("Not a merge request event")
  /\ (AuthorizedRequest /\ IsMergeRequest /\ ~MappingWellFormed)
       => /\ NoTrigger
          /\ Ended => Status(500)

\* C7: the pipelines an authorized merge-request event starts are, pipeline by
\* pipeline, as many as the labels that map to that pipeline: never more than
\* one call per matching label, and on an answered invocation exactly one,
\* also when two labels map to the same pipeline.
C7_OncePerMatchingLabel ==
  Dispatching
    => /\ attempts <= Len(MatchingLabels)
       /\ (Ended /\ result.kind = "return")
            => /\ Len(Calls) = Len(MatchingLabels)
               /\ \A P \in {ConfiguredMap[k] : k \in DOMAIN ConfiguredMap} :
                    Cardinality({i \in DOMAIN Calls : Calls[i].name = P})
                      = Cardinality({i \in DOMAIN MatchingLabels :
                                       ConfiguredMap[MatchingLabels[i]] = P})

C7_Witness ==
  /\ Ended
  /\ result.kind = "return"
  /\ Len(Calls) = 2
  /\ Calls[1].name = Calls[2].name
  /\ ReqTitles[1] # ReqTitles[2]

\* C8: when the same event is delivered again, an answered invocation has the
\* status and the trigger calls of every earlier answered invocation of it, its
\* executions are new ones, and it starts one per matching label again.
C8_RedeliveryTriggersAgain ==
  (Ended /\ result.kind = "return")
    => /\ \A i \in DOMAIN history :
            history[i].result.kind = "return"
              => /\ history[i].result.statusCode = result.statusCode
                 /\ history[i].calls = Summary.calls
                 /\ history[i].ids \cap Summary.ids = {}
       /\ Cardinality(Summary.ids) = Len(Calls)
       /\ Dispatching => Len(Calls) = Len(MatchingLabels)
       /\ (\A i \in DOMAIN history : history[i].result.kind = "return")
            => Len(executions) = (Len(history) + 1) * Len(Calls)

C8_Witness ==
  /\ Ended
  /\ result.kind = "return"
  /\ Len(history) = 1
  /\ history[1].result.kind = "return"
  /\ Len(Calls) = 2
  /\ Len(executions) = 4

\* C9: a failed trigger call ends the invocation with the exception: it is the
\* only failed call (no retry), it belongs to the k-th matching label, the k-1
\* earlier executions are the ones started and stay started, no later label is
\* processed, and no response is ever returned by an invocation in which a
\* trigger call failed.
C9_FailureState ==
  /\ result.kind = "return" => attempts = Len(Calls)
  /\ attempts # Len(Calls)
       => /\ Ended
          /\ result = [kind |-> "raise", exc |-> "ClientError"]
          /\ attempts = Len(Calls) + 1
          /\ idx \in DOMAIN ReqTitles
          /\ Matches(ReqTitles[idx])
          /\ Len(SelectSeq(SubSeq(ReqTitles, 1, idx), Matches)) = attempts
          /\ [i \in DOMAIN Calls |-> Calls[i].name]
               = [i \in 1..(attempts - 1) |-> ConfiguredMap[MatchingLabels[i]]]

C9_TriggerFailurePropagates ==
  /\ []C9_FailureState
  /\ [][attempts # Len(Calls) => (executions' = executions /\ pc' = "parse")]_vars

C9_Witness ==
  /\ Ended
  /\ result.kind = "raise"
  /\ result.exc = "ClientError"
  /\ Len(Calls) = 1
  /\ idx = 2
  /\ attempts = 2

\* C10: a request without an x-gitlab-token header, or with an empty one, never
\* gets past verify_gitlab_signature, whatever the payload and the secret store
\* (an empty registered secret included): it is answered 403 and triggers
\* nothing; an invocation that makes a trigger call presented a non-empty token
\* equal to the non-empty secret registered for the payload's project.
C10_EmptyTokenNeverAuthorized ==
  /\ (BodyIsJson /\ TokenHeaderValues \subseteq {""})
       => /\ NoTrigger
          /\ pc \notin {"filter", "load", "dispatch"}
          /\ Ended => Status(403)
  /\ attempts > 0
       => /\ PresentedToken # ""
          /\ RegisteredSecret \notin {None, ""}
          /\ PresentedToken = RegisteredSecret

C10_Witness ==
  /\ Ended
  /\ Status(403)
  /\ TokenHeaderValues = {""}
  /\ RegisteredSecret = ""

====
